---- MODULE Spec2Model ----
(***************************************************************************)
(* A model of swaglyrics_backend/issue_maker.py: the /unsupported route    *)
(* (update), the ledger file unsupported.txt with its readers and its      *)
(* rewriter del_line, and the two cached tokens.                           *)
(*                                                                         *)
(* Strings are sequences of one-character strings, so that Python's        *)
(* substring test, line splitting, regular expressions and string          *)
(* comparison are computed character by character.  The file is the        *)
(* sequence of characters it holds.                                        *)
(***************************************************************************)
EXTENDS Integers, Sequences, FiniteSets, TLC

(***************************************************************************)
(* Bounds of the model.                                                    *)
(***************************************************************************)
\* how often the clock may jump
MaxTicks == 1
\* how many lines unsupported.txt may hold when the server starts, under Spec
MaxInitLines == 1
\* and under SpecLedger
MaxLedgerLines == 2

(***************************************************************************)
(* Characters and strings.                                                 *)
(***************************************************************************)
NL == "\n"
NUL == "\\0"

SmallLetters ==
    {"a", "b", "c", "d", "e", "f", "g", "h", "i", "j", "k", "l", "m",
     "n", "o", "p", "q", "r", "s", "t", "u", "v", "w", "x", "y", "z"}

\* the letters of A-Za-z
Letters ==
    SmallLetters \cup
    {"A", "B", "C", "D", "E", "F", "G", "H", "I", "J", "K", "L", "M",
     "N", "O", "P", "Q", "R", "S", "T", "U", "V", "W", "X", "Y", "Z"}

Whitespace == {" ", "\t", NL, "\r", "\f"}

\* ord() of the characters version strings are made of
Ord(c) ==
    CASE c = "." -> 46
      [] c = "0" -> 48 [] c = "1" -> 49 [] c = "2" -> 50 [] c = "3" -> 51
      [] c = "4" -> 52 [] c = "5" -> 53 [] c = "6" -> 54 [] c = "7" -> 55
      [] c = "8" -> 56 [] c = "9" -> 57

RECURSIVE StrLess(_, _)
\* Python's a < b on str: lexicographic by code point, a proper prefix is less
StrLess(a, b) ==
    IF b = <<>> THEN FALSE
    ELSE IF a = <<>> THEN TRUE
    ELSE IF Ord(Head(a)) # Ord(Head(b)) THEN Ord(Head(a)) < Ord(Head(b))
    ELSE StrLess(Tail(a), Tail(b))

\* Python's needle in data, on str
Contains(data, needle) ==
    \E i \in 0..(Len(data) - Len(needle)) :
        \A j \in 1..Len(needle) : data[i + j] = needle[j]

RECURSIVE ReadLines(_)
\* f.readlines(): each line keeps its newline; a last line may lack one
ReadLines(data) ==
    IF data = <<>> THEN <<>>
    ELSE LET ends == {i \in 1..Len(data) : data[i] = NL}
         IN  IF ends = {} THEN <<data>>
             ELSE LET e == CHOOSE i \in ends : \A k \in ends : i <= k
                  IN  <<SubSeq(data, 1, e)>> \o ReadLines(SubSeq(data, e + 1, Len(data)))

RECURSIVE Join(_)
\* the characters of a sequence of lines, one after the other
Join(ls) == IF ls = <<>> THEN <<>> ELSE Head(ls) \o Join(Tail(ls))

\* f'{song} by {artist}'
Line(s, a) == s \o <<" ", "b", "y", " ">> \o a

\* a slip: the character class written [a-z\s]+, without the capitals
FullMatchSmall(s) == Len(s) >= 1 /\ \A i \in 1..Len(s) : s[i] \in SmallLetters \cup Whitespace

\* re.fullmatch(asrg, s) with asrg = [A-Za-z\s]+
FullMatchAsrg(s) == Len(s) >= 1 /\ \A i \in 1..Len(s) : s[i] \in Letters \cup Whitespace

(***************************************************************************)
(* The inputs the requests draw from.                                      *)
(***************************************************************************)
\* 'x1' has a digit; 'T S' and 'T A' are letters and a space; 'T Aé' is letters
\* and a space, one letter outside A-Z and a-z, and begins with 'T A', so that
\* the text 'x1 by T A' occurs inside the line 'x1 by T Aé'
Songs == {<<"x", "1">>, <<"T", " ", "S">>}
Artists == {<<"T", " ", "A">>, <<"T", " ", "A", "é">>}

NoVersion == <<"<", "n", "o", "n", "e", ">">>
Floor == <<"1", ".", "1", ".", "1">>
Versions ==
    {NoVersion,
     <<"1", ".", "1", ".", "0">>,
     <<"1", ".", "0", ".", "1", "0">>,
     Floor,
     <<"1", ".", "1", "0", ".", "0">>}

(***************************************************************************)
(* What the properties say of a request's inputs: its version read as a    *)
(* release number, and whether the track provider's answer is an exact     *)
(* match.  These are recorded with the request, and decide nothing in it.  *)
(***************************************************************************)
RECURSIVE Digits(_, _)
\* the number a run of digits writes, after the digits read so far gave acc
Digits(s, acc) ==
    IF s = <<>> THEN acc ELSE Digits(Tail(s), 10 * acc + (Ord(Head(s)) - 48))

RECURSIVE Release(_, _)
\* the release number of a dotted version string: "1.10.0" is <<1, 10, 0>>
Release(s, cur) ==
    IF s = <<>> THEN <<Digits(cur, 0)>>
    ELSE IF Head(s) = "." THEN <<Digits(cur, 0)>> \o Release(Tail(s), <<>>)
    ELSE Release(Tail(s), Append(cur, Head(s)))

RECURSIVE ReleaseLess(_, _)
\* release numbers compared component by component, missing components being 0
ReleaseLess(a, b) ==
    IF a = <<>> /\ b = <<>> THEN FALSE
    ELSE LET x == IF a = <<>> THEN 0 ELSE Head(a)
             y == IF b = <<>> THEN 0 ELSE Head(b)
         IN  IF x # y THEN x < y
             ELSE ReleaseLess(IF a = <<>> THEN a ELSE Tail(a), IF b = <<>> THEN b ELSE Tail(b))

\* what a request's version is, read as a release number against the floor
VersionClass(v) ==
    IF v = NoVersion THEN "missing"
    ELSE IF ReleaseLess(Release(v, <<>>), Release(Floor, <<>>)) THEN "below"
    ELSE "ok"

\* the seconds a token has left, set against a margin
LeftClass(left, margin) ==
    IF left > margin THEN "above" ELSE IF left = margin THEN "at" ELSE "below"

\* the track provider's first item is exactly this song by this artist
ExactMatch(ans, s, a) == ans.kind = "items" /\ ans.name = s /\ ans.artist = a

\* the track provider's answers: a body without 'tracks', no items, or a first item
SpotifyAnswers ==
    {[kind |-> "nokey", name |-> <<>>, artist |-> <<>>],
     [kind |-> "empty", name |-> <<>>, artist |-> <<>>]}
    \cup {[kind |-> "items", name |-> s, artist |-> a] : s \in Songs, a \in Artists}

\* the issue provider's answers: a status code, and whether the body has 'html_url'
IssueStatuses == {201, 422}

\* seconds the clock may jump by: a token fetched at the start and living 3600
\* seconds has exactly 300 seconds left after 3300 and exactly 180 after 3420
TickSteps == {3300, 3420}
\* the instants the server may start at
StartTimes == {1000}
\* seconds an installation token lives, as the provider's expires_at says
GhLifetimes == {3600}

Reqs == {"u1", "u2"}

\* the pairs unsupported.txt may list when the server starts
InitPairs == {<<s, a>> \in Songs \X Artists : ~(FullMatchAsrg(s) /\ FullMatchAsrg(a))}

RECURSIVE SeqsUpTo(_, _)
SeqsUpTo(S, n) ==
    IF n = 0 THEN {<<>>}
    ELSE SeqsUpTo(S, n - 1)
         \cup {Append(q, x) : q \in {r \in SeqsUpTo(S, n - 1) : Len(r) = n - 1}, x \in S}

\* the files of up to n lines: a pair may be listed twice, as two requests
\* that both read the file before either appends both append their line
InitLedgers(n) ==
    {Join([i \in 1..Len(q) |-> Line(q[i][1], q[i][2]) \o <<NL>>]) : q \in SeqsUpTo(InitPairs, n)}

(***************************************************************************)
(* The state.                                                              *)
(***************************************************************************)
VARIABLES
    now,                    \* time.time()
    ticks,                  \* how often the clock has jumped
    gh_token,               \* "" at start, then the request whose refresh fetched it
    gh_token_expiry,
    spotify_token,
    spotify_token_expiry,
    file,                   \* the characters of unsupported.txt
    req,                    \* the /unsupported requests
    del,                    \* the request that calls del_line
    rd,                     \* the request that reads the whole ledger
    hook,                   \* the request to /issue_closed
    deploy,                 \* the request to /update_server
    match                   \* the comparison of a hit's title in genius_stripper

vars ==
    <<now, ticks, gh_token, gh_token_expiry, spotify_token, spotify_token_expiry,
      file, req, del, rd, hook, deploy, match>>

tokens == <<gh_token, gh_token_expiry, spotify_token, spotify_token_expiry>>

\* A request: where it is in update, its form fields, what it answered, and a
\* record of what it met and did (vclass: the version sent, as a release number;
\* hadLine: its read held a line of its pair; listed: its read held the text
\* '<song> by <artist>' somewhere; exact: the track provider's answer was an
\* exact match; refused: the issue provider answered another status than
\* 201; the calls it made; spLeft, ghLeft: whether the cached token had more
\* than the margin, the margin or less left when get_spotify_token,
\* get_github_token looked at it; expAt: the expires_at of the installation token
\* answer it holds; failedAt: the token refresh step that raised)
IdleReq ==
    [pc |-> "idle", song |-> <<>>, artist |-> <<>>, outcome |-> "none",
     vclass |-> "none", hadLine |-> FALSE, listed |-> FALSE, exact |-> FALSE, refused |-> FALSE,
     appends |-> 0, spCalls |-> 0, issueCalls |-> 0,
     spRefreshes |-> 0, ghRefreshes |-> 0, spLeft |-> "none", ghLeft |-> "none",
     expAt |-> 0, failedAt |-> "none"]

\* The del_line call: its arguments, the lines it read, the loop's index and
\* count, the file object's buffer and offset, and whether another request has
\* written to the file since del_line read it
IdleDel ==
    [pc |-> "idle", song |-> <<>>, artist |-> <<>>, lines |-> <<>>, idx |-> 1,
     cnt |-> 0, buf |-> <<>>, pos |-> 0, raced |-> FALSE]

\* The reading request: its route, what it read, and whether a del_line call
\* was under way (past its read, not yet past its close) at that moment
IdleRd == [pc |-> "idle", route |-> "none", data |-> <<>>, mid |-> FALSE]

\* The request to /issue_closed: its signature, its X-GitHub-Event header, its
\* payload's action, label names, repository name and issue title, what it
\* answered, and how often it called del_line
IdleHook ==
    [pc |-> "idle", sig |-> "none", event |-> "none", action |-> "none",
     labels |-> <<>>, repo |-> "none", title |-> <<>>, outcome |-> "none",
     delCalls |-> 0]

\* The request to /update_server: its signature and event header, what it
\* answered, how often it pulled and how often it called discord_deploy
IdleDeploy ==
    [pc |-> "idle", sig |-> "none", event |-> "none", outcome |-> "none",
     pulls |-> 0, notifications |-> 0]

\* The comparison of one hit in genius_stripper: the song and artist asked
\* for, the hit's full title, the words and the stripped full title handed to
\* is_title_mismatched, and what it returned
IdleMatch ==
    [pc |-> "idle", song |-> <<>>, artist |-> <<>>, hit |-> <<>>, words |-> <<>>,
     full_title |-> <<>>, mismatch |-> FALSE]

InitWith(ledgers) ==
    /\ now \in StartTimes
    /\ ticks = 0
    /\ gh_token = ""
    /\ gh_token_expiry = 0
    /\ spotify_token = ""
    /\ spotify_token_expiry = 0
    /\ file \in ledgers
    /\ req = [p \in Reqs |-> IdleReq]
    /\ del = IdleDel
    /\ rd = IdleRd
    /\ hook = IdleHook
    /\ deploy = IdleDeploy

Init == InitWith(InitLedgers(MaxInitLines)) /\ match = IdleMatch

InitLedger == InitWith(InitLedgers(MaxLedgerLines)) /\ match = IdleMatch

(***************************************************************************)
(* update, the /unsupported route.                                         *)
(***************************************************************************)
\* a slip: the floor written '1.1'
VersionRejectedShortFloor(v) == v = NoVersion \/ StrLess(v, <<"1", ".", "1">>)

\* version missing (KeyError), or version < '1.1.1'
VersionRejected(v) == v = NoVersion \/ StrLess(v, Floor)

\* a slip: the data compared with the pair's line instead of searched for it
AlreadyListedWholeFile(data, s, a) == data = Line(s, a) \o <<NL>>

\* a slip: the line built with song and artist the other way round
AlreadyListedSwapped(data, s, a) == Contains(data, Line(a, s))

\* f'{song} by {artist}' in data
AlreadyListed(data, s, a) == Contains(data, Line(s, a))

\* a slip: or for and
IsTrivialEither(s, a) == FullMatchAsrg(s) \/ FullMatchAsrg(a)

\* re.fullmatch(asrg, song) and re.fullmatch(asrg, artist)
IsTrivial(s, a) == FullMatchAsrg(s) /\ FullMatchAsrg(a)

\* a slip: the artist of the first item is not compared
CheckSongNameOnly(ans, s, a) ==
    IF ans.kind = "nokey" THEN FALSE
    ELSE IF ans.kind = "empty" THEN FALSE
    ELSE ans.name = s

\* check_song's verdict on the track provider's answer
CheckSong(ans, s, a) ==
    IF ans.kind = "nokey" THEN FALSE
    ELSE IF ans.kind = "empty" THEN FALSE
    ELSE ans.name = s /\ ans.artist = a

\* the request arrives; the form is read and the version checked
UpdateStart(p) ==
    /\ req[p].pc = "idle"
    /\ \E s \in Songs, a \in Artists, v \in Versions :
          req' = [req EXCEPT ![p] =
                    [@ EXCEPT !.song = s, !.artist = a, !.vclass = VersionClass(v),
                              !.pc = IF VersionRejected(v) THEN "done" ELSE "read",
                              !.outcome = IF VersionRejected(v) THEN "update_text" ELSE "none"]]
    /\ UNCHANGED <<now, ticks, tokens, file, del, rd, hook, deploy, match>>

\* unsupported.txt is read; membership and the trivial check decide on the data
UpdateRead(p) ==
    /\ req[p].pc = "read"
    /\ LET s == req[p].song
           a == req[p].artist
           had == \E i \in 1..Len(ReadLines(file)) : ReadLines(file)[i] = Line(s, a) \o <<NL>>
       IN  req' = [req EXCEPT ![p] =
                     [@ EXCEPT !.hadLine = had, !.listed = Contains(file, Line(s, a)),
                               !.pc = IF AlreadyListed(file, s, a) \/ IsTrivial(s, a)
                                      THEN "done" ELSE "sp_token",
                               !.outcome = IF AlreadyListed(file, s, a) THEN "exists"
                                           ELSE IF IsTrivial(s, a) THEN "may_not_exist"
                                           ELSE "none"]]
    /\ UNCHANGED <<now, ticks, tokens, file, del, rd, hook, deploy, match>>

\* the request ends with an outcome
Finish(p, out) == [req EXCEPT ![p].pc = "done", ![p].outcome = out]

(***************************************************************************)
(* get_spotify_token and check_song.                                       *)
(***************************************************************************)
SpotifyMargin == 300
SpotifyLifetime == 3600

\* get_spotify_token's test with the margin's last second counted as fresh
SpotifyTokenFreshAtMargin(expiry, t) == expiry - SpotifyMargin >= t

\* spotify_token_expiry - 300 > time.time()
SpotifyTokenFresh(expiry, t) == expiry - SpotifyMargin > t

\* check_song calls get_spotify_token: the cached token, or a refresh request
GetSpotifyToken(p) ==
    /\ req[p].pc = "sp_token"
    /\ req' = IF SpotifyTokenFresh(spotify_token_expiry, now)
              THEN [req EXCEPT ![p].pc = "sp_search",
                               ![p].spLeft = LeftClass(spotify_token_expiry - now, 300)]
              ELSE [req EXCEPT ![p].pc = "sp_refresh", ![p].spRefreshes = @ + 1,
                               ![p].spLeft = LeftClass(spotify_token_expiry - now, 300)]
    /\ UNCHANGED <<now, ticks, tokens, file, del, rd, hook, deploy, match>>

\* the token endpoint answers: r.json()['access_token'], or KeyError
SpotifyTokenReply(p) ==
    /\ req[p].pc = "sp_refresh"
    /\ \E hasToken \in BOOLEAN :
          IF hasToken
          THEN /\ spotify_token' = p
               /\ req' = [req EXCEPT ![p].pc = "sp_expiry"]
          ELSE /\ req' = [Finish(p, "error") EXCEPT ![p].failedAt = "sp_refresh"]
               /\ UNCHANGED spotify_token
    /\ UNCHANGED <<now, ticks, gh_token, gh_token_expiry, spotify_token_expiry, file, del, rd, hook, deploy, match>>

\* spotify_token_expiry = time.time() + 3600
SpotifyTokenExpiry(p) ==
    /\ req[p].pc = "sp_expiry"
    /\ spotify_token_expiry' = now + SpotifyLifetime
    /\ req' = [req EXCEPT ![p].pc = "sp_search"]
    /\ UNCHANGED <<now, ticks, gh_token, gh_token_expiry, spotify_token, file, del, rd, hook, deploy, match>>

\* the track search and check_song's verdict on its answer
CheckSongSearch(p) ==
    /\ req[p].pc = "sp_search"
    /\ \E ans \in SpotifyAnswers :
          req' = [req EXCEPT ![p] =
                    [@ EXCEPT !.exact = ExactMatch(ans, req[p].song, req[p].artist),
                              !.spCalls = @ + 1,
                              !.pc = IF CheckSong(ans, req[p].song, req[p].artist)
                                     THEN "append" ELSE "done",
                              !.outcome = IF CheckSong(ans, req[p].song, req[p].artist)
                                          THEN "none" ELSE "fishy"]]
    /\ UNCHANGED <<now, ticks, tokens, file, del, rd, hook, deploy, match>>

\* open('unsupported.txt', 'a'): the line goes to the end of the file
UpdateAppend(p) ==
    /\ req[p].pc = "append"
    /\ file' = file \o Line(req[p].song, req[p].artist) \o <<NL>>
    /\ req' = [req EXCEPT ![p].pc = "gh_token", ![p].appends = @ + 1]
    /\ del' = IF del.pc = "idle" THEN del ELSE [del EXCEPT !.raced = TRUE]
    /\ UNCHANGED <<now, ticks, tokens, rd, hook, deploy, match>>

(***************************************************************************)
(* create_issue and get_github_token.                                      *)
(***************************************************************************)
GithubMargin == 180
Created == 201

\* gh_token_expiry - 180 > time.time()
GithubTokenFresh(expiry, t) == expiry - GithubMargin > t

\* create_issue is called and calls get_github_token
GetGithubToken(p) ==
    /\ req[p].pc = "gh_token"
    /\ req' = IF GithubTokenFresh(gh_token_expiry, now)
              THEN [req EXCEPT ![p].pc = "post_issue", ![p].issueCalls = @ + 1,
                               ![p].ghLeft = LeftClass(gh_token_expiry - now, 180)]
              ELSE [req EXCEPT ![p].pc = "gh_refresh", ![p].issueCalls = @ + 1,
                               ![p].ghRefreshes = @ + 1,
                               ![p].ghLeft = LeftClass(gh_token_expiry - now, 180)]
    /\ UNCHANGED <<now, ticks, tokens, file, del, rd, hook, deploy, match>>

\* get_github_token with the fetched token assigned to spotify_token
GithubTokenReplyIntoSpotify(p) ==
    /\ req[p].pc = "gh_refresh"
    /\ \E hasToken \in BOOLEAN, life \in GhLifetimes :
          IF hasToken
          THEN /\ spotify_token' = p
               /\ req' = [req EXCEPT ![p].pc = "gh_expiry", ![p].expAt = now + life]
          ELSE /\ req' = [Finish(p, "error") EXCEPT ![p].failedAt = "gh_refresh"]
               /\ UNCHANGED spotify_token
    /\ UNCHANGED <<now, ticks, gh_token, gh_token_expiry, spotify_token_expiry, file, del, rd, hook, deploy, match>>

\* the installation token endpoint answers: response["token"], or KeyError
GithubTokenReply(p) ==
    /\ req[p].pc = "gh_refresh"
    /\ \E hasToken \in BOOLEAN, life \in GhLifetimes :
          IF hasToken
          THEN /\ gh_token' = p
               /\ req' = [req EXCEPT ![p].pc = "gh_expiry", ![p].expAt = now + life]
          ELSE /\ req' = [Finish(p, "error") EXCEPT ![p].failedAt = "gh_refresh"]
               /\ UNCHANGED gh_token
    /\ UNCHANGED <<now, ticks, gh_token_expiry, spotify_token, spotify_token_expiry, file, del, rd, hook, deploy, match>>

\* gh_token_expiry = strptime(response["expires_at"]).timestamp(), or ValueError
GithubTokenExpiry(p) ==
    /\ req[p].pc = "gh_expiry"
    /\ \E parses \in BOOLEAN :
          IF parses
          THEN /\ gh_token_expiry' = req[p].expAt
               /\ req' = [req EXCEPT ![p].pc = "post_issue", ![p].expAt = 0]
          ELSE /\ req' = [Finish(p, "error") EXCEPT ![p].failedAt = "gh_expiry", ![p].expAt = 0]
               /\ UNCHANGED gh_token_expiry
    /\ UNCHANGED <<now, ticks, gh_token, spotify_token, spotify_token_expiry, file, del, rd, hook, deploy, match>>

\* what update answers after the POST: r.json()['html_url'] may raise KeyError
IssueOutcome(status, hasUrl) ==
    IF ~hasUrl THEN "error"
    ELSE IF status = Created THEN "created"
    ELSE "logged"

\* the POST to the issues endpoint and the end of update
CreateIssuePost(p) ==
    /\ req[p].pc = "post_issue"
    /\ \E st \in IssueStatuses, hasUrl \in BOOLEAN :
          req' = [req EXCEPT ![p] =
                    [@ EXCEPT !.refused = (st # Created), !.pc = "done",
                              !.outcome = IssueOutcome(st, hasUrl)]]
    /\ UNCHANGED <<now, ticks, tokens, file, del, rd, hook, deploy, match>>

(***************************************************************************)
(* del_line, called by /delete_unsupported, /add_stripper and /issue_closed.*)
(***************************************************************************)
\* write(2) of bytes at an offset: what is there is overwritten, a gap is zeros
WriteAt(f, pos, bytes) ==
    LET padded == IF pos > Len(f) THEN f \o [i \in 1..(pos - Len(f)) |-> NUL] ELSE f
    IN  SubSeq(padded, 1, pos) \o bytes \o SubSeq(padded, pos + Len(bytes) + 1, Len(padded))

\* a slip: the newline left out of the comparison
IsTargetNoNewline(line, s, a) == line = Line(s, a)

\* line == f"{song} by {artist}\n"
IsTarget(line, s, a) == line = Line(s, a) \o <<NL>>

\* with open('unsupported.txt', 'r') as f: lines = f.readlines()
DelRead ==
    /\ del.pc = "idle"
    /\ \E s \in Songs, a \in Artists :
          del' = [del EXCEPT !.pc = "open_w", !.song = s, !.artist = a,
                             !.lines = ReadLines(file)]
    /\ UNCHANGED <<now, ticks, tokens, file, req, rd, hook, deploy, match>>

\* open('unsupported.txt', 'w') truncates the file
DelOpenW ==
    /\ del.pc = "open_w"
    /\ file' = <<>>
    /\ del' = [del EXCEPT !.pc = IF del.lines = <<>> THEN "close" ELSE "write"]
    /\ UNCHANGED <<now, ticks, tokens, req, rd, hook, deploy, match>>

\* one turn of the loop: the line is counted or written to the file object's
\* buffer, which reaches the file when it is full or, at the latest, on close
DelWrite ==
    /\ del.pc = "write"
    /\ LET line == del.lines[del.idx]
           hit == IsTarget(line, del.song, del.artist)
           buf == IF hit THEN del.buf ELSE del.buf \o line
           nxt == IF del.idx = Len(del.lines) THEN "close" ELSE "write"
       IN  \E flush \in BOOLEAN :
              IF flush /\ buf # <<>>
              THEN /\ file' = WriteAt(file, del.pos, buf)
                   /\ del' = [del EXCEPT !.pc = nxt, !.idx = @ + 1,
                                         !.cnt = IF hit THEN @ + 1 ELSE @,
                                         !.buf = <<>>, !.pos = @ + Len(buf)]
              ELSE /\ file' = file
                   /\ del' = [del EXCEPT !.pc = nxt, !.idx = @ + 1,
                                         !.cnt = IF hit THEN @ + 1 ELSE @,
                                         !.buf = buf]
    /\ UNCHANGED <<now, ticks, tokens, req, rd, hook, deploy, match>>

\* the with block ends: what is left in the buffer is written, cnt is returned
DelClose ==
    /\ del.pc = "close"
    /\ file' = IF del.buf = <<>> THEN file ELSE WriteAt(file, del.pos, del.buf)
    /\ del' = [del EXCEPT !.pc = "done", !.buf = <<>>, !.pos = @ + Len(del.buf)]
    /\ UNCHANGED <<now, ticks, tokens, req, rd, hook, deploy, match>>

DelLine ==
    \/ DelRead
    \/ DelOpenW
    \/ DelWrite
    \/ DelClose

(***************************************************************************)
(* The routes that read the whole ledger.                                  *)
(***************************************************************************)
\* /master_unsupported: data = f.read()
MasterUnsupported ==
    /\ rd.pc = "idle"
    /\ rd' = [pc |-> "done", route |-> "master_unsupported", data |-> file,
              mid |-> del.pc \in {"open_w", "write", "close"}]
    /\ UNCHANGED <<now, ticks, tokens, file, req, del, hook, deploy, match>>

\* /: data = f.readlines()
Hello ==
    /\ rd.pc = "idle"
    /\ rd' = [pc |-> "done", route |-> "hello", data |-> file,
              mid |-> del.pc \in {"open_w", "write", "close"}]
    /\ UNCHANGED <<now, ticks, tokens, file, req, del, hook, deploy, match>>

(***************************************************************************)
(* The webhooks: /issue_closed and /update_server.                         *)
(***************************************************************************)
\* the text the title of an issue ends with, and the text of the pattern wdt
\* before its last '.'
UnsupportedDot == <<" ", "u", "n", "s", "u", "p", "p", "o", "r", "t", "e", "d", ".">>
UnsupportedTail == <<" ", "u", "n", "s", "u", "p", "p", "o", "r", "t", "e", "d">>
By == <<" ", "b", "y", " ">>

\* "title": f"{song} by {artist} unsupported."
IssueTitle(s, a) == Line(s, a) \o UnsupportedDot

\* the text w stands in t from position k on
SubAt(t, k, w) == k + Len(w) - 1 <= Len(t) /\ SubSeq(t, k, k + Len(w) - 1) = w

\* '.' of a pattern matches every character but the newline
NoNewline(t, from, to) == \A k \in from..to : t[k] # NL

\* (.+) by (.+) unsupported. matched at the start of t, with group 1 ending at
\* i and group 2 at j
WdtSplits(t, i, j) ==
    /\ i >= 1 /\ SubAt(t, i + 1, By)
    /\ j >= i + 5 /\ SubAt(t, j + 1, UnsupportedTail)
    /\ j + 13 <= Len(t)
    /\ NoNewline(t, 1, i) /\ NoNewline(t, i + 5, j) /\ t[j + 13] # NL

NoMatch == [matched |-> FALSE, song |-> <<>>, artist |-> <<>>]

\* wdt.match(title): both groups are greedy, the first takes all it can, then
\* the second; group(1) and group(2) of the match, or None
WdtMatch(t) ==
    LET ends == {i \in 1..Len(t) : \E j \in 1..Len(t) : WdtSplits(t, i, j)}
    IN  IF ends = {} THEN NoMatch
        ELSE LET i == CHOOSE x \in ends : \A y \in ends : y <= x
                 js == {j \in 1..Len(t) : WdtSplits(t, i, j)}
                 j == CHOOSE x \in js : \A y \in js : y <= x
             IN  [matched |-> TRUE, song |-> SubSeq(t, 1, i),
                  artist |-> SubSeq(t, i + 5, j)]

\* the pairs whose issues get closed: names with and without ' by ' in them
HookSongs == {<<"x", "1">>, <<"x", " ", "b", "y", " ", "1">>}
HookArtists == {<<"T", " ", "A">>, <<"T", " ", "b", "y", " ", "A">>}
HookPairs ==
    {pr \in HookSongs \X HookArtists : pr[1] = <<"x", "1">> \/ pr[2] = <<"T", " ", "A">>}
HookLedgers(n) ==
    {Join([i \in 1..Len(q) |-> Line(q[i][1], q[i][2]) \o <<NL>>]) : q \in SeqsUpTo(HookPairs, n)}

\* what a request to a webhook route may carry
Signatures == {"valid", "wrong", "missing"}
Events == {"ping", "issues", "push"}
IssueActions == {"closed", "opened"}
UnsupportedSong == "unsupported song"
LabelLists ==
    {<<>>, <<UnsupportedSong>>, <<"bug">>, <<"bug", UnsupportedSong>>}
ThisRepo == "SwagLyrics-For-Spotify"
Repos == {ThisRepo, "swaglyrics-backend"}
\* the titles update files, a title with no ' by ' and a title with its end
\* edited away
Titles ==
    {IssueTitle(pr[1], pr[2]) : pr \in HookPairs}
    \cup {<<"x", "1">> \o UnsupportedDot, Line(<<"x", "1">>, <<"T", " ", "A">>)}

\* validate_request: the signature header is checked against the keyed hash of
\* the body; a wrong or missing one aborts the request before the payload is
\* parsed
ValidateRequest(sig) == sig = "valid"

\* github_webhook once validate_request has returned the payload
GithubWebhookDispatch(event, action, labels, repo, title) ==
    IF event = "ping" THEN "pong"
    ELSE IF event = "issues"
    THEN IF labels = <<>> THEN "not_relevant"
         ELSE IF action = "closed" /\ labels[1] = UnsupportedSong /\ repo = ThisRepo
              THEN IF WdtMatch(title).matched THEN "del_line" ELSE "error"
              ELSE "not_relevant"
    ELSE "wrong_event"

\* github_webhook with the payload read without validate_request
GithubWebhookOutcomeUnverified(sig, event, action, labels, repo, title) ==
    GithubWebhookDispatch(event, action, labels, repo, title)

\* github_webhook: how the request ends, or that it calls del_line
GithubWebhookOutcome(sig, event, action, labels, repo, title) ==
    IF ~ValidateRequest(sig) THEN "rejected"
    ELSE GithubWebhookDispatch(event, action, labels, repo, title)

\* POST /issue_closed, as far as del_line's read of the file
GithubWebhook ==
    /\ hook.pc = "idle" /\ del.pc = "idle"
    /\ \E sig \in Signatures, event \in Events, action \in IssueActions,
          labels \in LabelLists, repo \in Repos, title \in Titles :
          LET out == GithubWebhookOutcome(sig, event, action, labels, repo, title)
              got == [hook EXCEPT !.sig = sig, !.event = event, !.action = action,
                                  !.labels = labels, !.repo = repo, !.title = title]
              m == WdtMatch(title)
          IN  IF out = "del_line"
              THEN /\ hook' = [got EXCEPT !.pc = "del_line", !.delCalls = @ + 1]
                   /\ del' = [del EXCEPT !.pc = "open_w", !.song = m.song,
                                         !.artist = m.artist, !.lines = ReadLines(file)]
              ELSE /\ hook' = [got EXCEPT !.pc = "done", !.outcome = out]
                   /\ UNCHANGED del
    /\ UNCHANGED <<now, ticks, tokens, file, req, rd, deploy, match>>

\* del_line has returned: f'Deleted {cnt} instances from unsupported.txt'
GithubWebhookReturn ==
    /\ hook.pc = "del_line" /\ del.pc = "done"
    /\ hook' = [hook EXCEPT !.pc = "done", !.outcome = "deleted"]
    /\ UNCHANGED <<now, ticks, tokens, file, req, del, rd, deploy, match>>

PullResults == {"nothing", "flagged", "pulled"}

\* update_webhook: how the request ends, how often it pulls, how often it
\* calls discord_deploy
UpdateWebhookOutcome(sig, event, master, pull, sameHash) ==
    IF event = "ping" THEN [outcome |-> "hi", pulls |-> 0, notifications |-> 0]
    ELSE IF event = "push"
    THEN IF ~ValidateRequest(sig)
         THEN [outcome |-> "rejected", pulls |-> 0, notifications |-> 0]
         ELSE IF ~master
         THEN [outcome |-> "not_master", pulls |-> 0, notifications |-> 0]
         ELSE IF pull # "pulled"
         THEN [outcome |-> "no_pull", pulls |-> 1, notifications |-> 0]
         ELSE [outcome |-> "updated", pulls |-> 1,
               notifications |-> IF sameHash THEN 1 ELSE 0]
    ELSE [outcome |-> "wrong_event", pulls |-> 0, notifications |-> 0]

\* POST /update_server
UpdateWebhook ==
    /\ deploy.pc = "idle"
    /\ \E sig \in Signatures, event \in Events, master \in BOOLEAN,
          pull \in PullResults, sameHash \in BOOLEAN :
          LET out == UpdateWebhookOutcome(sig, event, master, pull, sameHash)
          IN  deploy' = [pc |-> "done", sig |-> sig, event |-> event,
                         outcome |-> out.outcome, pulls |-> out.pulls,
                         notifications |-> out.notifications]
    /\ UNCHANGED <<now, ticks, tokens, file, req, del, rd, hook, match>>

(***************************************************************************)
(* genius_stripper's comparison of titles.                                 *)
(***************************************************************************)
Capitals ==
    <<"A", "B", "C", "D", "E", "F", "G", "H", "I", "J", "K", "L", "M",
      "N", "O", "P", "Q", "R", "S", "T", "U", "V", "W", "X", "Y", "Z">>
Smalls ==
    <<"a", "b", "c", "d", "e", "f", "g", "h", "i", "j", "k", "l", "m",
      "n", "o", "p", "q", "r", "s", "t", "u", "v", "w", "x", "y", "z">>

\* str.lower() of the characters left by alg
LowerChar(c) ==
    IF \E i \in 1..26 : Capitals[i] = c
    THEN Smalls[CHOOSE i \in 1..26 : Capitals[i] = c]
    ELSE c
LowerStr(s) == [i \in 1..Len(s) |-> LowerChar(s[i])]

DigitChars == {"0", "1", "2", "3", "4", "5", "6", "7", "8", "9"}

\* re.sub(alg, '', s) with alg = [^\sa-zA-Z0-9]+
RECURSIVE StripAlg(_)
StripAlg(s) ==
    IF s = <<>> THEN <<>>
    ELSE (IF Head(s) \in Letters \cup DigitChars \cup Whitespace THEN <<Head(s)>> ELSE <<>>)
         \o StripAlg(Tail(s))

\* s.split(): the runs of characters between whitespace; cur is the run so far
RECURSIVE SplitFrom(_, _)
SplitFrom(s, cur) ==
    IF s = <<>> THEN (IF cur = <<>> THEN <<>> ELSE <<cur>>)
    ELSE IF Head(s) \in Whitespace
         THEN (IF cur = <<>> THEN <<>> ELSE <<cur>>) \o SplitFrom(Tail(s), <<>>)
         ELSE SplitFrom(Tail(s), Append(cur, Head(s)))
Split(s) == SplitFrom(s, <<>>)

\* a slip: half the words, rounded up
MaxErrRoundedUp(words) == (Len(words) + 1) \div 2

\* max_err = len(words) // 2
MaxErr(words) == Len(words) \div 2

\* word.lower() not in full_title.lower()
WordMissing(word, full_title) == ~Contains(LowerStr(full_title), LowerStr(word))

\* the loop of is_title_mismatched from a word on, err_cnt misses counted so far
RECURSIVE MismatchFrom(_, _, _, _)
MismatchFrom(words, full_title, max_err, err_cnt) ==
    IF words = <<>> THEN FALSE
    ELSE IF WordMissing(Head(words), full_title)
         THEN IF err_cnt + 1 > max_err THEN TRUE
              ELSE MismatchFrom(Tail(words), full_title, max_err, err_cnt + 1)
         ELSE MismatchFrom(Tail(words), full_title, max_err, err_cnt)

IsTitleMismatched(words, full_title, max_err) == MismatchFrom(words, full_title, max_err, 0)

\* the songs and artists a stripper is asked for, and the full titles of the
\* hits the lyrics provider may answer with
TitleSongs == {<<>>, <<"H", "e">>, <<"G", "o", " ", "o", "n">>}
TitleArtists == {<<>>, <<"U", "2">>, <<"A", "C", "/", "D", "C">>}
FullTitles ==
    {<<>>,
     <<"h", "e", " ", "b", "y", " ", "u", "2">>,
     <<"T", "H", "E", " ", "A", "C", "D", "C">>,
     <<"G", "o", "!", " ", "U", "2">>,
     <<"s", "t", "a", "n", "d", " ", "B", "Y", " ", "m", "e">>,
     <<"A", "C", "/", "D", "C", " ", "o", "n", " ", "U", "2">>,
     <<"g", "o", " ", "o", "n", ",", " ", "h", "e">>}

\* genius_stripper for one hit: both titles stripped, the query split, the
\* words compared
GeniusStripperHit ==
    /\ match.pc = "hit"
    /\ LET title == StripAlg(Line(match.song, match.artist))
           words == Split(title)
           full_title == StripAlg(match.hit)
       IN  match' = [match EXCEPT !.pc = "done", !.words = words,
                                  !.full_title = full_title,
                                  !.mismatch = IsTitleMismatched(words, full_title,
                                                                 MaxErr(words))]
    /\ UNCHANGED <<now, ticks, tokens, file, req, del, rd, hook, deploy>>

\* time passes
Tick ==
    /\ ticks < MaxTicks
    /\ \E d \in TickSteps : now' = now + d
    /\ ticks' = ticks + 1
    /\ UNCHANGED <<tokens, file, req, del, rd, hook, deploy, match>>

Update(p) ==
    \/ UpdateStart(p)
    \/ UpdateRead(p)
    \/ GetSpotifyToken(p)
    \/ SpotifyTokenReply(p)
    \/ SpotifyTokenExpiry(p)
    \/ CheckSongSearch(p)
    \/ UpdateAppend(p)
    \/ GetGithubToken(p)
    \/ GithubTokenReply(p)
    \/ GithubTokenExpiry(p)
    \/ CreateIssuePost(p)

Next ==
    \/ \E p \in Reqs : Update(p)
    \/ Tick

Spec == Init /\ [][Next]_vars

\* The ledger under one /unsupported request, one del_line and one reader
NextLedger ==
    \/ Update("u1")
    \/ DelLine
    \/ MasterUnsupported
    \/ Hello

SpecLedger == InitLedger /\ [][NextLedger]_vars

\* The ledger under one request to /issue_closed and one to /update_server
InitHooks == InitWith(HookLedgers(MaxLedgerLines)) /\ match = IdleMatch

NextHooks ==
    \/ GithubWebhook
    \/ DelOpenW
    \/ DelWrite
    \/ DelClose
    \/ GithubWebhookReturn
    \/ UpdateWebhook

SpecHooks == InitHooks /\ [][NextHooks]_vars

\* genius_stripper with a song, an artist and a hit's full title
InitTitle ==
    /\ InitWith({<<>>})
    /\ match \in {[IdleMatch EXCEPT !.pc = "hit", !.song = s, !.artist = a, !.hit = h] :
                    s \in TitleSongs, a \in TitleArtists, h \in FullTitles}

NextTitle == GeniusStripperHit

SpecTitle == InitTitle /\ [][NextTitle]_vars

(***************************************************************************)
(* The properties.                                                         *)
(***************************************************************************)
SamePair(p, q) == req[p].song = req[q].song /\ req[p].artist = req[q].artist

\* how many of the lines are the line of (s, a)
RECURSIVE CountLine(_, _, _)
CountLine(ls, s, a) ==
    IF ls = <<>> THEN 0
    ELSE (IF Head(ls) = Line(s, a) \o <<NL>> THEN 1 ELSE 0) + CountLine(Tail(ls), s, a)

\* C1, as claimed: whatever the interleaving of /unsupported requests, and with
\* no line ever removed (no del_line runs under Spec), create_issue is called
\* for at most one request of any (song, artist) pair.
C1_IssueOncePerPair ==
    \A p \in Reqs, q \in Reqs :
        (p # q /\ req[p].issueCalls > 0 /\ req[q].issueCalls > 0) => ~SamePair(p, q)

\* C1, amended: a request whose read of unsupported.txt held a line of its pair
\* never calls create_issue, however the requests interleave.  (Two requests for
\* a pair not yet listed that both read before either appends both call it.)
C1_ListedPairMakesNoIssue ==
    \A p \in Reqs : req[p].hadLine => req[p].issueCalls = 0 /\ req[p].pc = "done"

\* C1's case: a request called create_issue for a pair, and a later request for
\* the same pair found the line and ended with 'Issue already exists'.
C1_Witness ==
    \E p \in Reqs, q \in Reqs :
        /\ p # q /\ SamePair(p, q)
        /\ req[q].issueCalls = 1
        /\ req[p].hadLine /\ req[p].outcome = "exists" /\ req[p].issueCalls = 0

\* C2, as claimed: whatever the interleaving of /unsupported requests, the
\* ledger never holds two lines for the same (song, artist) pair.
C2_NoPairListedTwice ==
    \A s \in Songs, a \in Artists : CountLine(ReadLines(file), s, a) <= 1

\* C2, amended: update appends the line of a pair only for a request whose own
\* read of unsupported.txt held no line of that pair: every step that adds a
\* line of a pair to the ledger adds one line, and is the append of such a
\* request.  (Two requests that both read before either appends both append.)
C2_ListedPairIsNotAppended ==
    [][\A s \in Songs, a \in Artists :
          (file' # file /\ CountLine(ReadLines(file'), s, a) > CountLine(ReadLines(file), s, a)) =>
              /\ CountLine(ReadLines(file'), s, a) = CountLine(ReadLines(file), s, a) + 1
              /\ \E p \in Reqs :
                    /\ req[p].pc = "append" /\ req'[p].appends = 1
                    /\ req[p].song = s /\ req[p].artist = a
                    /\ ~req[p].hadLine]_vars

\* C2's case: the ledger holds one line of a pair, appended by one request, and
\* another request for that pair has read it and ended without appending.
C2_Witness ==
    \E p \in Reqs, q \in Reqs :
        /\ p # q /\ SamePair(p, q)
        /\ req[q].appends = 1
        /\ req[p].pc = "done" /\ req[p].hadLine /\ req[p].appends = 0
        /\ CountLine(ReadLines(file), req[p].song, req[p].artist) = 1

\* C3, as claimed: for each provider, the callers that find the cached expiry
\* stale issue one refresh request between them: never are two requests both
\* waiting for, or storing, a refreshed token of the same provider.
C3_OneRefreshInFlight ==
    /\ Cardinality({p \in Reqs : req[p].pc \in {"sp_refresh", "sp_expiry"}}) <= 1
    /\ Cardinality({p \in Reqs : req[p].pc \in {"gh_refresh", "gh_expiry"}}) <= 1

\* a letter, of A-Z and a-z or not
AnyLetters == Letters \cup {"é"}

\* the string is made of letters and whitespace only
OnlyLettersAndSpace(s) == s # <<>> /\ \A i \in 1..Len(s) : s[i] \in AnyLetters \cup Whitespace

\* the string is made of the letters A-Z, a-z and whitespace only
OnlyAsciiLettersAndSpace(s) == s # <<>> /\ \A i \in 1..Len(s) : s[i] \in Letters \cup Whitespace

\* the request ended in an uncaught error of a token refresh or of create_issue
Failed(p) == req[p].outcome = "error"

\* the ledger holds the line of the request's pair
HoldsLineOf(p) == CountLine(ReadLines(file), req[p].song, req[p].artist) >= 1

C7_OldVersionIsTurnedAway ==
    \A p \in Reqs :
        req[p].vclass \in {"missing", "below"}
        => /\ req[p].pc = "done" /\ req[p].outcome = "update_text"
           /\ req[p].appends = 0 /\ req[p].spCalls = 0 /\ req[p].issueCalls = 0
           /\ req[p].spRefreshes = 0 /\ req[p].ghRefreshes = 0

\* C7's case: both a request without a version and one with a release below the
\* floor have ended with the update prompt.
C7_Witness ==
    \E p \in Reqs, q \in Reqs :
        /\ req[p].vclass = "below" /\ req[p].outcome = "update_text"
        /\ req[q].vclass = "missing" /\ req[q].outcome = "update_text"

\* C8: once the track provider has answered a request's search with anything
\* but an exact match of song and first artist (no 'tracks', no items, another
\* name or artist), the request has ended with 'fishy request', without an
\* append and without a create_issue call.
C8_UnconfirmedPairIsFishy ==
    \A p \in Reqs :
        (req[p].spCalls = 1 /\ ~req[p].exact)
        => /\ req[p].pc = "done" /\ req[p].outcome = "fishy"
           /\ req[p].appends = 0 /\ req[p].issueCalls = 0 /\ req[p].ghRefreshes = 0

\* C8's case: a request the provider did not confirm has ended as fishy, and
\* the ledger holds no line of its pair.
C8_Witness ==
    \E p \in Reqs :
        /\ req[p].spCalls = 1 /\ ~req[p].exact /\ req[p].outcome = "fishy"
        /\ ~HoldsLineOf(p)

\* C9, as claimed: when the issue provider answers the POST with another status
\* than 201, the request ends with 'Logged ... in the server', never with an
\* uncaught error, and the line it appended is in the ledger.
C9_RefusedIssueIsLogged ==
    \A p \in Reqs :
        (req[p].pc = "done" /\ req[p].refused)
        => req[p].outcome = "logged" /\ req[p].appends = 1 /\ HoldsLineOf(p)

\* the lines that are not the line of (s, a), in their order
RECURSIVE OtherLines(_, _, _)
OtherLines(ls, s, a) ==
    IF ls = <<>> THEN <<>>
    ELSE (IF Head(ls) = Line(s, a) \o <<NL>> THEN <<>> ELSE <<Head(ls)>>)
         \o OtherLines(Tail(ls), s, a)

\* C4, as claimed: a request that reads the whole ledger while a del_line call
\* is under way (and no other request writes) gets either all that the file held
\* before the removal or all that it holds after it.
C4_ReaderSeesWholeLedger ==
    (rd.pc = "done" /\ rd.mid /\ ~del.raced)
    => \/ rd.data = Join(del.lines)
       \/ rd.data = Join(OtherLines(del.lines, del.song, del.artist))

\* C10: when del_line(song, artist) returns, and no other request has written
\* to the file since del_line read it, the count returned is the number of
\* lines '<song> by <artist>' the file held, and the file holds all the other
\* lines, and only them, in their order.
C10_DelLineRemovesAllAndCounts ==
    del.pc = "done"
    => /\ del.cnt = CountLine(del.lines, del.song, del.artist)
       /\ ~del.raced =>
             /\ file = Join(OtherLines(del.lines, del.song, del.artist))
             /\ CountLine(ReadLines(file), del.song, del.artist) = 0

\* C10's case: the ledger held two lines of the pair and a line of another
\* pair; del_line has returned 2 and the file holds the other line only.
C10_Witness ==
    /\ del.pc = "done" /\ ~del.raced
    /\ del.cnt = 2 /\ Len(del.lines) = 3
    /\ Len(ReadLines(file)) = 1

\* C11, as claimed: once del_line(song, artist) has removed the pair's lines
\* and returned (no other request having written meanwhile), the test update
\* applies, the text '<song> by <artist>' found in the file's content, is
\* false for that pair, whatever other lines the file holds.
C11_RemovedPairIsNotFound ==
    (del.pc = "done" /\ ~del.raced /\ del.cnt >= 1)
    => ~Contains(file, Line(del.song, del.artist))

\* C18, as claimed: update answers that an issue already exists only when the
\* file it read held a line of exactly its song and artist.
C18_TrackedOnlyWhenPairListed ==
    \A p \in Reqs : req[p].outcome = "exists" => req[p].hadLine

\* C19, as claimed: when a del_line call and an update that appends the line
\* of another pair have both finished, the appended line is in the file.
C19_AppendSurvivesDelLine ==
    (/\ del.pc = "done" /\ req["u1"].pc = "done" /\ req["u1"].appends = 1
     /\ <<req["u1"].song, req["u1"].artist>> # <<del.song, del.artist>>)
    => HoldsLineOf("u1")

\* C20, as claimed: a request whose token refresh failed leaves that provider's
\* cached token as it was: the token its refresh fetched is not the cached one.
C20_FailedRefreshKeepsCache ==
    \A p \in Reqs :
        /\ req[p].failedAt = "sp_refresh" => spotify_token # p
        /\ req[p].failedAt \in {"gh_refresh", "gh_expiry"} => gh_token # p

\* the request has been through get_spotify_token's, get_github_token's test
SpotifyChecked(p) == req[p].spRefreshes = 1 \/ req[p].spCalls = 1 \/ req[p].pc = "sp_search"
GithubChecked(p) == req[p].issueCalls = 1

\* C15: get_spotify_token and get_github_token hand out the cached token, with
\* no refresh request and the token and its expiry left as they are, exactly
\* when the cached token has more than the margin left (300 seconds for the
\* track provider, 180 for the issue provider); in every other case they ask
\* for a new token first, and a refresh that has succeeded has overwritten the
\* token with the one fetched and the expiry with the new one.
C15_CachedTokenExactlyWithMarginLeft ==
    /\ [](\A p \in Reqs :
            /\ SpotifyChecked(p) => (req[p].spRefreshes = 0 <=> req[p].spLeft = "above")
            /\ GithubChecked(p) => (req[p].ghRefreshes = 0 <=> req[p].ghLeft = "above"))
    /\ [][\A p \in Reqs :
            /\ (req[p].pc = "sp_token" /\ req'[p].pc # "sp_token") => UNCHANGED tokens
            /\ (req[p].pc = "gh_token" /\ req'[p].pc # "gh_token") => UNCHANGED tokens
            /\ (req[p].pc = "sp_refresh" /\ req'[p].pc = "sp_expiry") => spotify_token' = p
            /\ (req[p].pc = "sp_expiry" /\ req'[p].pc = "sp_search")
               => spotify_token_expiry' = now + 3600 /\ spotify_token' \in Reqs
            /\ (req[p].pc = "gh_refresh" /\ req'[p].pc = "gh_expiry") => gh_token' = p
            /\ (req[p].pc = "gh_expiry" /\ req'[p].pc = "post_issue")
               => gh_token_expiry' = req[p].expAt /\ gh_token' \in Reqs]_vars

\* C15's case: one request found the track provider's token with exactly 300
\* seconds left and asked for a new one, and was handed the issue provider's
\* cached token, which had more than 180 seconds left.
C15_Witness ==
    \E p \in Reqs :
        /\ req[p].spRefreshes = 1 /\ req[p].spLeft = "at"
        /\ req[p].issueCalls = 1 /\ req[p].ghRefreshes = 0 /\ req[p].ghLeft = "above"

\* C17: no step of get_github_token changes spotify_token or
\* spotify_token_expiry, and no step of get_spotify_token changes gh_token or
\* gh_token_expiry.
C17_TokenCachesAreSeparate ==
    [][\A p \in Reqs :
         /\ (req[p].pc \in {"gh_token", "gh_refresh", "gh_expiry"} /\ req'[p] # req[p])
            => UNCHANGED <<spotify_token, spotify_token_expiry>>
         /\ (req[p].pc \in {"sp_token", "sp_refresh", "sp_expiry"} /\ req'[p] # req[p])
            => UNCHANGED <<gh_token, gh_token_expiry>>]_vars

\* C17's case: a request has refreshed the issue provider's token while the
\* track provider's token fetched by the other request is still the cached one.
C17_Witness ==
    \E p, q \in Reqs :
        /\ p # q /\ gh_token = p /\ gh_token_expiry > 0 /\ req[p].ghRefreshes = 1
        /\ spotify_token = q /\ spotify_token_expiry > 0

\* the request to /issue_closed is a verified 'issues' event
VerifiedIssuesEvent == hook.pc # "idle" /\ hook.sig = "valid" /\ hook.event = "issues"

HasLabel(labels, name) == \E k \in 1..Len(labels) : labels[k] = name

\* C12, as claimed: a verified issues event with action 'closed', the label
\* 'unsupported song', the expected repository and the title update filed for
\* a pair calls del_line once, with a song and an artist whose line is the
\* line update appended for the pair, and when del_line has returned the file
\* holds no such line; also for names with ' by ' in them.
C12_ClosedIssueRemovesItsLine ==
    \A pr \in HookPairs :
        (/\ VerifiedIssuesEvent /\ hook.action = "closed"
         /\ HasLabel(hook.labels, "unsupported song")
         /\ hook.repo = "SwagLyrics-For-Spotify"
         /\ hook.title = IssueTitle(pr[1], pr[2]))
        => /\ hook.delCalls = 1
           /\ Line(del.song, del.artist) = Line(pr[1], pr[2])
           /\ hook.pc = "done" => CountLine(ReadLines(file), pr[1], pr[2]) = 0

\* the title is '<song> by <artist> unsupported.' for some names, each of one
\* character or more
WellFormedTitle(t) ==
    \E i \in 1..Len(t) :
        /\ SubAt(t, i + 1, <<" ", "b", "y", " ">>)
        /\ Len(t) >= i + 5 + 13
        /\ SubSeq(t, Len(t) - 12, Len(t)) = UnsupportedDot

\* C13, as claimed: a verified issues event whose title is not of the form
\* '<song> by <artist> unsupported.', or whose repository or label is not the
\* expected one, or whose action is not 'closed', is answered 'not relevant'
\* and leaves the file alone.
C13_OtherIssuesEventIsNotRelevant ==
    (/\ VerifiedIssuesEvent
     /\ \/ ~WellFormedTitle(hook.title)
        \/ hook.repo # "SwagLyrics-For-Spotify"
        \/ ~HasLabel(hook.labels, "unsupported song")
        \/ hook.action # "closed")
    => hook.outcome = "not_relevant" /\ hook.delCalls = 0 /\ del.pc = "idle"

MissingWords(words, full_title) ==
    Cardinality({i \in 1..Len(words) :
                   ~Contains(LowerStr(full_title), LowerStr(words[i]))})

\* C16: for a query of n words and a candidate title, is_title_mismatched
\* called with max_err = n // 2 reports a mismatch exactly when more than
\* n // 2 of the words are not found, letters' case apart, in the candidate; so
\* a candidate in which every word is found is accepted, whatever else it
\* holds and in whatever order, and a one-word query is accepted only when its
\* word is found in the candidate.
C16_MismatchExactlyAboveHalfMissing ==
    match.pc = "done"
    => LET n == Len(match.words)
           missing == MissingWords(match.words, match.full_title)
       IN  /\ match.mismatch <=> missing > n \div 2
           /\ missing = 0 => ~match.mismatch
           /\ n = 1 => (~match.mismatch <=> missing = 0)

\* C16's case: a query of four words, two of them not found in the candidate
\* and two found with their letters' case apart, is accepted.
C16_Witness ==
    /\ match.pc = "done" /\ Len(match.words) = 4
    /\ MissingWords(match.words, match.full_title) = 2
    /\ \E i \in 1..4 : /\ Contains(LowerStr(match.full_title), LowerStr(match.words[i]))
                       /\ ~Contains(match.full_title, match.words[i])
    /\ ~match.mismatch

====
